---- MODULE Spec2Model ----
(***************************************************************************)
(* Game-state engine of the Skyjo prototype (src/src/SkyjoApp.tsx): the    *)
(* React state hooks of SkyjoPrototype are the variables, each event       *)
(* handler is one action.  Indices are 0-based as in the source; TLA+      *)
(* sequences are 1-based, so a[i] of the source is a[i + 1] here.          *)
(***************************************************************************)
EXTENDS Integers, Sequences, FiniteSets, TLC

VARIABLES phase, playerCount, players, deck, discard, currentPlayer,
          revealTargets, drawnCard, uidNext, unmounted, lastCall, turns, games

gameVars == <<phase, playerCount, players, deck, discard, currentPlayer,
              revealTargets, drawnCard>>
vars == <<phase, playerCount, players, deck, discard, currentPlayer,
          revealTargets, drawnCard, uidNext, unmounted, lastCall, turns, games>>

\* ---- Bounds of the model ----
\* games are started with at most MaxPlayers players
MaxPlayers == 2
\* turns (endTurn calls) of one game
MaxTurns == 1
\* games started (startGame calls)
MaxGames == 1
\* games started when only the first slot is tapped
MaxGamesFirstSlot == 2
\* turns of one game when every held card goes to the pile by the discard button
MaxTurnsDiscardButton == 42

\* ---- Program constants ----
HandSize == 12
DefaultPlayerCount == 4
MinPlayerCount == 2
MaxPlayerCount == 8

\* drawnCard = null
Null == [null |-> TRUE]
\* { ...undefined, faceUp: true }: a card object without id and value
NoCard == [faceUp |-> TRUE]

CARD_DISTRIBUTION ==
  (-2 :> 5) @@ (-1 :> 10) @@ (0 :> 15) @@ (1 :> 10) @@ (2 :> 10) @@ (3 :> 10) @@
  (4 :> 10) @@ (5 :> 10) @@ (6 :> 10) @@ (7 :> 8) @@ (8 :> 8) @@ (9 :> 8) @@
  (10 :> 8) @@ (11 :> 8) @@ (12 :> 8)

\* Object.entries order: integer-like keys ascending, then "-2", "-1" as inserted
DistributionEntries == <<0, 1, 2, 3, 4, 5, 6, 7, 8, 9, 10, 11, 12, -2, -1>>

RECURSIVE sum(_)
sum(arr) == IF arr = <<>> THEN 0 ELSE arr[1] + sum(Tail(arr))

DeckTotal == sum([k \in 1..Len(DistributionEntries) |-> CARD_DISTRIBUTION[DistributionEntries[k]]])

\* Math.floor(Math.random() * (i + 1)): some j in 0..i; the outcomes tried are
\* those of a fixed family of sources indexed by seed
Random(seed, i) == ((i * 7919 + seed * 104729) % 1009) % (i + 1)

\* the iterations i, i-1, ..., stop+1 of the loop of shuffle
RECURSIVE shuffleLoop(_, _, _, _)
shuffleLoop(a, i, stop, seed) ==
  IF i <= stop THEN a
  ELSE LET j == Random(seed, i)
           swapped == [a EXCEPT ![i + 1] = a[j + 1], ![j + 1] = a[i + 1]]
       IN IF Len(swapped) = Len(a) THEN shuffleLoop(swapped, i - 1, stop, seed) ELSE a

\* for (i = a.length - 1; i > 0; i--), evaluated in three runs of the loop to
\* keep the evaluation depth small
shuffle(arr, seed) ==
  LET last == Len(arr) - 1
      third == last \div 3
      a1 == shuffleLoop(arr, last, 2 * third, seed)
      a2 == shuffleLoop(a1, 2 * third, third, seed)
  IN shuffleLoop(a2, third, 0, seed)

RECURSIVE deckEntries(_, _)
deckEntries(k, n) ==
  IF k > Len(DistributionEntries) THEN <<>>
  ELSE LET value == DistributionEntries[k]
           count == CARD_DISTRIBUTION[value]
       IN [i \in 1..count |-> [id |-> n + i - 1, value |-> value, faceUp |-> FALSE]]
          \o deckEntries(k + 1, n + count)

buildDeck(n, seed) == shuffle(deckEntries(1, n), seed)

Init ==
  /\ phase = "start"
  /\ playerCount = DefaultPlayerCount
  /\ players = <<>>
  /\ deck = <<>>
  /\ discard = <<>>
  /\ currentPlayer = 0
  /\ revealTargets = <<>>
  /\ drawnCard = Null
  /\ uidNext = 0
  /\ unmounted = FALSE
  /\ lastCall = [op |-> "mount", args |-> <<>>, accepted |-> TRUE]
  /\ turns = 0
  /\ games = 0

\* the handler called last, its arguments, and whether it passed its early returns
Call(op, args, accepted) == lastCall' = [op |-> op, args |-> args, accepted |-> accepted]

\* Select onValueChange of the start screen
setPlayerCountAction(n) ==
  /\ ~unmounted
  /\ phase = "start"
  /\ Call("setPlayerCount", <<n>>, TRUE)
  /\ playerCount' = n
  /\ UNCHANGED <<phase, players, deck, discard, currentPlayer, revealTargets,
                 drawnCard, uidNext, unmounted, turns, games>>

\* faulty variant: the last card of every hand is not dealt
dealtPlayersShortHand(d, n) ==
  [p \in 1..n |->
    [id |-> p - 1,
     cards |-> [k \in 1..(HandSize - 1) |->
                 [d[Len(d) - (HandSize * (p - 1) + (k - 1))] EXCEPT !.faceUp = FALSE]]]]

\* the players built by startGame: 12 cards each, popped from the end of d
dealtPlayers(d, n) ==
  [p \in 1..n |->
    [id |-> p - 1,
     cards |-> [k \in 1..HandSize |->
                 [d[Len(d) - (HandSize * (p - 1) + (k - 1))] EXCEPT !.faceUp = FALSE]]]]

\* the start screen (the only place with the start button) is rendered in phase start
startGame(seed) ==
  /\ ~unmounted
  /\ phase = "start"
  /\ Call("startGame", <<>>, TRUE)
  /\ LET d == buildDeck(uidNext, seed)
         dealt == HandSize * playerCount
         firstDiscard == d[Len(d) - dealt]
     IN /\ players' = dealtPlayers(d, playerCount)
        /\ discard' = <<[firstDiscard EXCEPT !.faceUp = TRUE]>>
        /\ deck' = SubSeq(d, 1, Len(d) - dealt - 1)
        /\ uidNext' = uidNext + Len(d)
  /\ phase' = "reveal"
  /\ revealTargets' = [i \in 0..(playerCount - 1) |-> 0]
  /\ currentPlayer' = 0
  /\ games' = games + 1
  /\ turns' = 0
  /\ UNCHANGED <<playerCount, drawnCard, unmounted>>

\* faulty variant: the drawn card is not cleared
resetGameKeepsDrawnCard ==
  /\ ~unmounted
  /\ Call("resetGame", <<>>, TRUE)
  /\ phase' = "start"
  /\ players' = <<>>
  /\ deck' = <<>>
  /\ discard' = <<>>
  /\ currentPlayer' = 0
  /\ revealTargets' = <<>>
  /\ UNCHANGED <<playerCount, drawnCard, uidNext, unmounted, turns, games>>

resetGame ==
  /\ ~unmounted
  /\ Call("resetGame", <<>>, TRUE)
  /\ phase' = "start"
  /\ players' = <<>>
  /\ deck' = <<>>
  /\ discard' = <<>>
  /\ currentPlayer' = 0
  /\ revealTargets' = <<>>
  /\ drawnCard' = Null
  /\ UNCHANGED <<playerCount, uidNext, unmounted, turns, games>>

\* arr[index] of an array: undefined outside 0..length-1 and in a hole
Undefined == [undefined |-> TRUE]
Hole == [hole |-> TRUE]

at(arr, index) ==
  IF index >= 0 /\ index < Len(arr) /\ arr[index + 1] # Hole THEN arr[index + 1]
  ELSE Undefined

\* arr[index] = item on a fresh copy: a negative index sets a property that is
\* no element (the next [...arr] drops it), an index past the end extends the array
assignAt(arr, index, item) ==
  IF index < 0 THEN arr
  ELSE IF index < Len(arr) THEN [arr EXCEPT ![index + 1] = item]
  ELSE arr \o [k \in 1..(index - Len(arr)) |-> Hole] \o <<item>>

\* c.faceUp, undefined (falsy) for undefined?.faceUp
isFaceUp(c) == IF "faceUp" \in DOMAIN c THEN c.faceUp ELSE FALSE

\* faulty variant: the copy keeps the face of the card
sameFaceCopy(c) == c

\* { ...c, faceUp: true }
faceUpCopy(c) == IF "faceUp" \in DOMAIN c THEN [c EXCEPT !.faceUp = TRUE] ELSE NoCard

\* c.value is undefined: it makes every sum it enters NaN
lacksValue(c) == "value" \notin DOMAIN c

\* the sum of p.cards.filter((c) => c.faceUp).map((c) => c.value) is NaN
sumIsNaN(cards) == \E k \in 1..Len(cards) : isFaceUp(cards[k]) /\ lacksValue(cards[k])

\* the sum of p.cards.filter((c) => c.faceUp).map((c) => c.value), when it is a number
visibleSum(cards) ==
  sum([k \in 1..Len(cards) |->
        IF isFaceUp(cards[k]) /\ ~lacksValue(cards[k]) THEN cards[k].value ELSE 0])

RECURSIVE maxOf(_)
maxOf(arr) ==
  IF Len(arr) = 1 THEN arr[1]
  ELSE LET m == maxOf(Tail(arr)) IN IF arr[1] >= m THEN arr[1] ELSE m

\* arr.indexOf(x): the first index holding x
indexOf(arr, x) == (CHOOSE k \in 1..Len(arr) : arr[k] = x /\ \A l \in 1..(k - 1) : arr[l] # x) - 1

\* the starter computed from the players of the current render; Math.max is NaN
\* when a sum is NaN, and sums.indexOf(NaN) is -1
startIndexOf(ps) ==
  LET sums == [k \in 1..Len(ps) |-> visibleSum(ps[k].cards)]
  IN IF \E k \in 1..Len(ps) : sumIsNaN(ps[k].cards) THEN 0 - 1
     ELSE indexOf(sums, maxOf(sums))

\* the updater passed to setPlayers by handleInitFlip
initFlipUpdater(prev, pIndex, cIndex) ==
  LET cards == prev[pIndex + 1].cards
      target == at(cards, cIndex)
  IN IF isFaceUp(target) THEN prev
     ELSE [prev EXCEPT ![pIndex + 1].cards = assignAt(cards, cIndex, faceUpCopy(target))]

\* faulty variant: the check of the active player is missing
initFlipRejectedAnyPlayer(pIndex) ==
  \/ phase # "reveal"
  \/ revealTargets[players[pIndex + 1].id] >= 2

\* the three early returns of handleInitFlip
initFlipRejected(pIndex) ==
  \/ phase # "reveal"
  \/ pIndex # currentPlayer
  \/ revealTargets[players[pIndex + 1].id] >= 2

\* faulty variant: the reveal passes on after a player's first card
handleInitFlipOneCard(pIndex, cIndex) ==
  /\ ~unmounted
  /\ Call("handleInitFlip", <<pIndex, cIndex>>, ~initFlipRejected(pIndex))
  /\ IF initFlipRejected(pIndex)
     THEN UNCHANGED gameVars
     ELSE LET nextCount == revealTargets[players[pIndex + 1].id] + 1
              nextPlayer == currentPlayer + 1
          IN /\ players' = initFlipUpdater(players, pIndex, cIndex)
             /\ revealTargets' = [revealTargets EXCEPT ![players[pIndex + 1].id] = nextCount]
             /\ IF nextCount >= 1
                THEN IF nextPlayer < Len(players)
                     THEN currentPlayer' = nextPlayer /\ UNCHANGED phase
                     ELSE currentPlayer' = startIndexOf(players) /\ phase' = "play"
                ELSE UNCHANGED <<currentPlayer, phase>>
             /\ UNCHANGED <<playerCount, deck, discard, drawnCard>>
  /\ UNCHANGED <<uidNext, unmounted, turns, games>>

handleInitFlip(pIndex, cIndex) ==
  /\ ~unmounted
  /\ Call("handleInitFlip", <<pIndex, cIndex>>, ~initFlipRejected(pIndex))
  /\ IF initFlipRejected(pIndex)
     THEN UNCHANGED gameVars
     ELSE LET nextCount == revealTargets[players[pIndex + 1].id] + 1
              nextPlayer == currentPlayer + 1
          IN /\ players' = initFlipUpdater(players, pIndex, cIndex)
             /\ revealTargets' = [revealTargets EXCEPT ![players[pIndex + 1].id] = nextCount]
             /\ IF nextCount = 2
                THEN IF nextPlayer < Len(players)
                     THEN currentPlayer' = nextPlayer /\ UNCHANGED phase
                     ELSE currentPlayer' = startIndexOf(players) /\ phase' = "play"
                ELSE UNCHANGED <<currentPlayer, phase>>
             /\ UNCHANGED <<playerCount, deck, discard, drawnCard>>
  /\ UNCHANGED <<uidNext, unmounted, turns, games>>

\* faulty variant: a second acquisition in the same turn is not rejected
acquireRejectedPhaseOnly == phase # "play"

\* the first early return of drawFromDeck and of takeFromDiscard
acquireRejected == phase # "play" \/ drawnCard # Null

\* faulty variant: the deck is not checked for emptiness, so that d.pop() gives
\* undefined and the card held is { ...undefined, faceUp: true }
drawFromDeckNoEmptyCheck ==
  /\ ~unmounted
  /\ Call("drawFromDeck", <<>>, ~acquireRejected)
  /\ IF acquireRejected
     THEN UNCHANGED gameVars
     ELSE /\ deck' = SubSeq(deck, 1, Len(deck) - 1)
          /\ drawnCard' = IF Len(deck) = 0 THEN NoCard
                          ELSE [deck[Len(deck)] EXCEPT !.faceUp = TRUE]
          /\ UNCHANGED <<phase, playerCount, players, discard, currentPlayer, revealTargets>>
  /\ UNCHANGED <<uidNext, unmounted, turns, games>>

drawFromDeck ==
  /\ ~unmounted
  /\ Call("drawFromDeck", <<>>, ~(acquireRejected \/ Len(deck) = 0))
  /\ IF acquireRejected \/ Len(deck) = 0
     THEN UNCHANGED gameVars
     ELSE /\ deck' = SubSeq(deck, 1, Len(deck) - 1)
          /\ drawnCard' = [deck[Len(deck)] EXCEPT !.faceUp = TRUE]
          /\ UNCHANGED <<phase, playerCount, players, discard, currentPlayer, revealTargets>>
  /\ UNCHANGED <<uidNext, unmounted, turns, games>>

takeFromDiscard ==
  /\ ~unmounted
  /\ Call("takeFromDiscard", <<>>, ~(acquireRejected \/ Len(discard) = 0))
  /\ IF acquireRejected \/ Len(discard) = 0
     THEN UNCHANGED gameVars
     ELSE /\ discard' = SubSeq(discard, 1, Len(discard) - 1)
          /\ drawnCard' = discard[Len(discard)]
          /\ UNCHANGED <<phase, playerCount, players, deck, currentPlayer, revealTargets>>
  /\ UNCHANGED <<uidNext, unmounted, turns, games>>

\* faulty variant: the index does not wrap around
nextTurnPlayerNoWrap == currentPlayer + 1

\* the value endTurn passes to setCurrentPlayer
nextTurnPlayer == (currentPlayer + 1) % Len(players)

\* faulty variant: the drawn card is not cleared
endTurnKeepsDrawnCard ==
  /\ drawnCard' = drawnCard
  /\ currentPlayer' = nextTurnPlayer
  /\ turns' = turns + 1

endTurn ==
  /\ drawnCard' = Null
  /\ currentPlayer' = nextTurnPlayer
  /\ turns' = turns + 1

\* how often React runs an updater function: once, or twice under
\* <React.StrictMode> in a development build
UpdaterRuns == {1, 2}

\* faulty variant: the replaced card is not put on the pile
discardAfterPlaceNoPush(old, replaced, runs) == old

\* the setDiscard calls made from inside the setPlayers updater of placeDrawnAt
discardAfterPlace(old, replaced, runs) ==
  old \o [k \in 1..runs |-> faceUpCopy(replaced)]

\* prev[currentPlayer] is undefined, so [...pl.cards] throws a TypeError
noCurrentPlayer == currentPlayer < 0 \/ currentPlayer >= Len(players)

placeDrawnAt(index, runs) ==
  /\ ~unmounted
  /\ Call("placeDrawnAt", <<index>>, drawnCard # Null)
  /\ IF drawnCard = Null
     THEN UNCHANGED <<gameVars, turns, unmounted>>
     ELSE IF noCurrentPlayer
     THEN \* the updater throws: in the handler (nothing is set), or in the render
          \* (the tree is unmounted)
          /\ unmounted' \in {FALSE, TRUE}
          /\ UNCHANGED <<gameVars, turns>>
     ELSE /\ LET cards == players[currentPlayer + 1].cards
                 replaced == at(cards, index)
                 newCard == faceUpCopy(drawnCard)
             IN /\ players' = [players EXCEPT ![currentPlayer + 1].cards =
                                                assignAt(cards, index, newCard)]
                /\ discard' = discardAfterPlace(discard, replaced, runs)
          /\ endTurn
          /\ UNCHANGED <<phase, playerCount, deck, revealTargets, unmounted>>
  /\ UNCHANGED <<uidNext, games>>

\* faulty variant: the slot is not flipped
flipUpdaterNoFlip(prev, index) == prev

\* the updater passed to setPlayers by discardDrawnAndFlip
flipUpdater(prev, index) ==
  LET cards == prev[currentPlayer + 1].cards
  IN IF ~isFaceUp(cards[index + 1])
     THEN [prev EXCEPT ![currentPlayer + 1].cards = assignAt(cards, index, faceUpCopy(cards[index + 1]))]
     ELSE prev

\* [...pl.cards] throws a TypeError when prev[currentPlayer] is undefined, and
\* cards[indexToFlip].faceUp when cards[indexToFlip] is
flipThrows(prev, index) ==
  noCurrentPlayer \/ at(prev[currentPlayer + 1].cards, index) = Undefined

\* faulty variant: the game is over when the hand of the player who moved is all
\* face-up
discardDrawnAndFlipEndsGame(indexToFlip) ==
  /\ ~unmounted
  /\ Call("discardDrawnAndFlip", indexToFlip, drawnCard # Null)
  /\ IF drawnCard = Null
     THEN UNCHANGED <<gameVars, turns, unmounted>>
     ELSE IF indexToFlip # <<>> /\ flipThrows(players, indexToFlip[1])
          THEN unmounted' = TRUE /\ UNCHANGED <<gameVars, turns>>
          ELSE /\ discard' = Append(discard, faceUpCopy(drawnCard))
               /\ players' = IF indexToFlip # <<>>
                             THEN flipUpdater(players, indexToFlip[1])
                             ELSE players
               /\ endTurn
               /\ phase' = IF \A k \in 1..HandSize : isFaceUp(players'[currentPlayer + 1].cards[k])
                           THEN "start" ELSE phase
               /\ UNCHANGED <<playerCount, deck, revealTargets, unmounted>>
  /\ UNCHANGED <<uidNext, games>>

\* indexToFlip?: <<>> when the argument is omitted, <<index>> otherwise
discardDrawnAndFlip(indexToFlip) ==
  /\ ~unmounted
  /\ Call("discardDrawnAndFlip", indexToFlip, drawnCard # Null)
  /\ IF drawnCard = Null
     THEN UNCHANGED <<gameVars, turns, unmounted>>
     ELSE IF indexToFlip # <<>> /\ flipThrows(players, indexToFlip[1])
          THEN unmounted' = TRUE /\ UNCHANGED <<gameVars, turns>>
          ELSE /\ discard' = Append(discard, faceUpCopy(drawnCard))
               /\ players' = IF indexToFlip # <<>>
                             THEN flipUpdater(players, indexToFlip[1])
                             ELSE players
               /\ endTurn
               /\ UNCHANGED <<phase, playerCount, deck, revealTargets, unmounted>>
  /\ UNCHANGED <<uidNext, games>>

\* cards.findIndex((c) => !c.faceUp), undefined when there is none
findFirstFaceDownIndex(cards) ==
  IF \E k \in 1..Len(cards) : ~isFaceUp(cards[k])
  THEN <<(CHOOSE k \in 1..Len(cards) :
            ~isFaceUp(cards[k]) /\ \A l \in 1..(k - 1) : isFaceUp(cards[l])) - 1>>
  ELSE <<>>

\* the button of the bottom bar, rendered in phase play while a card is held
discardButton ==
  /\ phase = "play"
  /\ drawnCard # Null
  /\ ~noCurrentPlayer
  /\ discardDrawnAndFlip(findFirstFaceDownIndex(players[currentPlayer + 1].cards))

\* ---- Inputs ----
\* the options of the select of the start screen
PlayerCountOptions == MinPlayerCount..MaxPlayerCount
\* the random sources tried
Seeds == {2, 3}
\* the grids rendered: one per player
PlayerArgs == 0..(Len(players) - 1)
\* the slots tapped: the first and the last of the grid
SlotArgs == {0, HandSize - 1}
\* indices outside the hand: one below and one past the end
OutOfRangeArgs == {0 - 1, HandSize}

\* a held card is resolved only in the first maxTurns turns of a game
withinTurns(maxTurns) == drawnCard # Null => turns < maxTurns

\* one handler call: the slots tapped are among slots, a game is started with
\* at most maxPlayers players and at most maxGames times, and has at most
\* maxTurns turns
Step(slots, maxPlayers, maxGames, maxTurns) ==
  \/ \E n \in PlayerCountOptions : setPlayerCountAction(n)
  \/ \E seed \in Seeds :
       /\ games < maxGames
       /\ playerCount <= maxPlayers
       /\ startGame(seed)
  \/ resetGame
  \/ \E pIndex \in PlayerArgs, cIndex \in slots : handleInitFlip(pIndex, cIndex)
  \/ drawFromDeck
  \/ takeFromDiscard
  \/ \E index \in slots, runs \in UpdaterRuns :
       withinTurns(maxTurns) /\ placeDrawnAt(index, runs)
  \/ \E index \in slots : withinTurns(maxTurns) /\ discardDrawnAndFlip(<<index>>)
  \/ withinTurns(maxTurns) /\ discardDrawnAndFlip(<<>>)
  \/ withinTurns(maxTurns) /\ discardButton

\* callers pass the slot indices of the rendered grid
Next == Step(SlotArgs, MaxPlayers, MaxGames, MaxTurns)

Spec == Init /\ [][Next]_vars

\* callers pass any index
NextAnyIndex == Step(SlotArgs \cup OutOfRangeArgs, MaxPlayers, MaxGames, MaxTurns)

SpecAnyIndex == Init /\ [][NextAnyIndex]_vars

\* the first slot of the grid only
FirstSlot == {0}

\* every player count of the start screen and a second game, callers tap the
\* first slot only
NextFirstSlot == Step(FirstSlot, MaxPlayerCount, MaxGamesFirstSlot, MaxTurns)

SpecFirstSlot == Init /\ [][NextFirstSlot]_vars

\* long games: every player count of the start screen, the first slot revealed,
\* and every held card, drawn or taken, put on the pile with the discard button
NextDiscardButton ==
  \/ \E n \in PlayerCountOptions : setPlayerCountAction(n)
  \/ \E seed \in Seeds : games < MaxGames /\ startGame(seed)
  \/ resetGame
  \/ \E pIndex \in PlayerArgs, cIndex \in FirstSlot : handleInitFlip(pIndex, cIndex)
  \/ drawFromDeck
  \/ takeFromDiscard
  \/ withinTurns(MaxTurnsDiscardButton) /\ discardButton

SpecDiscardButton == Init /\ [][NextDiscardButton]_vars

\* ---- Properties ----
handCards == sum([p \in 1..Len(players) |-> Len(players[p].cards)])

cardCount == Len(deck) + Len(discard) + handCards + (IF drawnCard # Null THEN 1 ELSE 0)

faceUpCount(cards) == Cardinality({k \in 1..Len(cards) : isFaceUp(cards[k])})

\* C1: card conservation: in every state after startGame the cards of the deck,
\* of the discard pile, of all hands and the drawn card (if any) are together the
\* cards of the deck that was built: DeckTotal, the sum of the CARD_DISTRIBUTION
\* counts, which the claim takes to be 150.
C1_CardConservation == phase # "start" => cardCount = DeckTotal

\* C1, the number itself: the count is 150
C1_TotalIs150 == phase # "start" => cardCount = 150

\* C2: starter selection: the step that ends the reveal phase sets currentPlayer to
\* the lowest index among the players whose visible sum, taken in the resulting
\* state (the card flipped by this reveal included), is maximal.
C2_StarterSelection ==
  [][(phase = "reveal" /\ phase' = "play") =>
       \A q \in 1..Len(players') :
         /\ visibleSum(players'[currentPlayer' + 1].cards) >= visibleSum(players'[q].cards)
         /\ q < currentPlayer' + 1 =>
              visibleSum(players'[currentPlayer' + 1].cards) > visibleSum(players'[q].cards)]_vars

\* C3: revealCard by the current player, in phase reveal with revealProgress < 2, on
\* a slot that is already face-up leaves the whole game state unchanged.
C3_RevealFaceUpRejected ==
  [][(/\ lastCall'.op = "handleInitFlip"
      /\ phase = "reveal"
      /\ lastCall'.args[1] = currentPlayer
      /\ revealTargets[currentPlayer] < 2
      /\ isFaceUp(at(players[currentPlayer + 1].cards, lastCall'.args[2])))
     => UNCHANGED gameVars]_vars

\* C4: reveal gating: revealCard changes no part of the game state when phase is
\* not reveal, when playerIndex is not currentPlayer, or when the target player's
\* revealProgress is already 2.
C4_RevealGating ==
  [][(/\ lastCall'.op = "handleInitFlip"
      /\ \/ phase # "reveal"
         \/ lastCall'.args[1] # currentPlayer
         \/ /\ lastCall'.args[1] \in DOMAIN revealTargets
            /\ revealTargets[lastCall'.args[1]] = 2)
     => UNCHANGED gameVars]_vars

\* a third reveal for a player already at progress 2 was called and rejected
C4_Witness ==
  /\ lastCall.op = "handleInitFlip"
  /\ ~lastCall.accepted
  /\ phase = "reveal"
  /\ revealTargets[lastCall.args[1]] = 2

\* C5: throughout the reveal phase each player's revealProgress is the number of
\* face-up cards of that player's hand, and when phase changes from reveal to play
\* every player has exactly 2 face-up cards.
C5_RevealProgressCounts ==
  /\ [](phase = "reveal" =>
          \A p \in 1..Len(players) :
            revealTargets[players[p].id] = faceUpCount(players[p].cards))
  /\ [][(phase = "reveal" /\ phase' = "play") =>
          \A p \in 1..Len(players') : faceUpCount(players'[p].cards) = 2]_vars

\* C6: hand size invariance: in every state after startGame every hand has exactly
\* 12 slots, whatever index arguments the callers passed.
C6_HandSize == phase # "start" => \A p \in 1..Len(players) : Len(players[p].cards) = 12

\* C7: placeDrawnAt with a slot index outside 0..11 while a card is held is a
\* no-op: hands, discard pile, drawnCard and currentPlayer are unchanged.
C7_PlaceOutOfRangeNoOp ==
  [][(/\ lastCall'.op = "placeDrawnAt"
      /\ drawnCard # Null
      /\ lastCall'.args[1] \notin 0..11)
     => UNCHANGED <<players, discard, drawnCard, currentPlayer>>]_vars

Resolutions == {"placeDrawnAt", "discardDrawnAndFlip"}
Acquisitions == {"drawFromDeck", "takeFromDiscard"}

\* C8: turn cycle: in phase play with n players and currentPlayer = i, a resolution
\* (placeDrawnAt or discardAndFlip with a drawn card held) results in
\* currentPlayer = (i + 1) mod n and no drawn card; drawFromDeck and
\* takeFromDiscard never change currentPlayer.
C8_TurnCycle ==
  [][/\ (lastCall'.op \in Resolutions /\ phase = "play" /\ drawnCard # Null)
          => /\ currentPlayer' = (currentPlayer + 1) % Len(players)
             /\ drawnCard' = Null
     /\ lastCall'.op \in Acquisitions => currentPlayer' = currentPlayer]_vars

\* the last of the players has placed the drawn card and the turn went to player 0
C8_Witness ==
  /\ phase = "play"
  /\ lastCall.op = "placeDrawnAt"
  /\ lastCall.accepted
  /\ turns = 1
  /\ currentPlayer = 0
  /\ drawnCard = Null

\* C9: drawnCard window: a drawn card is present only in phase play, becomes
\* present only by an acquisition (drawFromDeck, takeFromDiscard) that passed its
\* guards, stays the same card of the same current player until a resolution, and
\* is absent right after every resolution and after resetGame.
C9_DrawnCardWindow ==
  /\ [](drawnCard # Null => phase = "play")
  /\ [][/\ (drawnCard = Null /\ drawnCard' # Null)
             => (lastCall'.op \in Acquisitions /\ lastCall'.accepted)
        /\ (drawnCard # Null /\ drawnCard' # Null)
             => (drawnCard' = drawnCard /\ currentPlayer' = currentPlayer
                 /\ lastCall'.op \notin Resolutions \cup {"resetGame"})
        /\ (lastCall'.op \in Resolutions \cup {"resetGame"}) => drawnCard' = Null]_vars

\* a card taken from the discard pile is held, the turn is not resolved yet
C9_Witness ==
  /\ phase = "play"
  /\ lastCall.op = "takeFromDiscard"
  /\ lastCall.accepted
  /\ drawnCard # Null

\* C10: sub-state gating: drawFromDeck and takeFromDiscard change no state unless
\* phase = play and no card is held; placeDrawnAt and discardAndFlip change no
\* state unless a card is held.
C10_SubStateGating ==
  [][/\ (lastCall'.op \in Acquisitions /\ ~(phase = "play" /\ drawnCard = Null))
          => UNCHANGED gameVars
     /\ (lastCall'.op \in Resolutions /\ drawnCard = Null)
          => UNCHANGED gameVars]_vars

\* a second acquisition in the same turn was called and rejected
C10_Witness ==
  /\ phase = "play"
  /\ drawnCard # Null
  /\ lastCall.op = "drawFromDeck"
  /\ ~lastCall.accepted

\* C11: swap semantics: placeDrawnAt(k) with 0 <= k <= 11 and a drawn card held
\* puts the drawn card, same value, face-up into slot k of the current player,
\* pushes the card that was in slot k, face-up, onto the discard pile exactly
\* once, and leaves the other slots, the other hands and the deck unchanged.
C11_SwapSemantics ==
  [][(/\ lastCall'.op = "placeDrawnAt"
      /\ drawnCard # Null
      /\ lastCall'.args[1] \in 0..11)
     => LET k == lastCall'.args[1] + 1
            hand == players[currentPlayer + 1].cards
        IN /\ players'[currentPlayer + 1].cards[k] = [drawnCard EXCEPT !.faceUp = TRUE]
           /\ discard' = Append(discard, [hand[k] EXCEPT !.faceUp = TRUE])
           /\ players' = [players EXCEPT ![currentPlayer + 1].cards[k] =
                                           players'[currentPlayer + 1].cards[k]]
           /\ deck' = deck]_vars

\* C12: discard-and-flip: discardAndFlip(idx) with a drawn card held, idx omitted
\* or a slot of the hand, appends the drawn card face-up to the discard pile,
\* clears drawnCard and passes the turn on; a face-down slot idx of the current
\* player becomes face-up with its id and value kept and nothing else in the hands
\* changes; with idx omitted or slot idx already face-up the hands do not change.
C12_DiscardAndFlip ==
  [][(/\ lastCall'.op = "discardDrawnAndFlip"
      /\ drawnCard # Null
      /\ lastCall'.args \in {<<>>} \cup {<<k>> : k \in 0..11})
     => LET idx == lastCall'.args
            hand == players[currentPlayer + 1].cards
        IN /\ discard' = Append(discard, [drawnCard EXCEPT !.faceUp = TRUE])
           /\ drawnCard' = Null
           /\ currentPlayer' = (currentPlayer + 1) % Len(players)
           /\ IF idx # <<>> /\ ~hand[idx[1] + 1].faceUp
              THEN players' = [players EXCEPT ![currentPlayer + 1].cards[idx[1] + 1].faceUp = TRUE]
              ELSE players' = players]_vars

\* the drawn card was discarded and a slot that was face-down has been flipped:
\* the player who moved has three cards face-up, the drawn card is on the pile
C12_Witness ==
  /\ phase = "play"
  /\ lastCall.op = "discardDrawnAndFlip"
  /\ lastCall.accepted
  /\ lastCall.args # <<>>
  /\ drawnCard = Null
  /\ turns = 1
  /\ Len(discard) = 2
  /\ LET mover == ((currentPlayer + Len(players) - 1) % Len(players)) + 1
     IN /\ revealTargets[players[mover].id] = 2
        /\ faceUpCount(players[mover].cards) = 3
        /\ isFaceUp(players[mover].cards[lastCall.args[1] + 1])

\* the state right after startGame with n players, the deck holding deckSize cards
startGamePostcondition(n, deckSize) ==
  /\ Len(players') = n
  /\ \A p \in 1..n :
       /\ players'[p].id = p - 1
       /\ Len(players'[p].cards) = 12
       /\ \A k \in 1..12 : ~players'[p].cards[k].faceUp
  /\ Len(discard') = 1
  /\ discard'[1].faceUp
  /\ Len(deck') = deckSize
  /\ \A k \in 1..Len(deck') : ~deck'[k].faceUp
  /\ phase' = "reveal"
  /\ currentPlayer' = 0
  /\ DOMAIN revealTargets' = 0..(n - 1)
  /\ \A i \in 0..(n - 1) : revealTargets'[i] = 0
  /\ drawnCard' = Null

\* C13 as stated: for every playerCount n in 2..8 the state right after startGame
\* has n players with ids 0..n-1, each holding 12 face-down cards, a discard pile
\* of one face-up card, a deck of 150 - 12n - 1 face-down cards, phase reveal,
\* currentPlayer 0, revealTargets 0 for every player and no drawn card.
C13_StartGame150 ==
  [][lastCall'.op = "startGame" =>
       /\ playerCount \in 2..8
       /\ startGamePostcondition(playerCount, 150 - 12 * playerCount - 1)]_vars

\* C13, amended: the same with a deck of DeckTotal - 12n - 1 = 138 - 12n - 1
\* face-down cards, DeckTotal being the sum of the CARD_DISTRIBUTION counts.
C13_StartGame ==
  [][lastCall'.op = "startGame" =>
       /\ playerCount \in 2..8
       /\ startGamePostcondition(playerCount, DeckTotal - 12 * playerCount - 1)
       /\ DeckTotal = 138]_vars

\* a game with 8 players has just been started: 96 cards dealt, 41 left in the deck
C13_Witness ==
  /\ lastCall.op = "startGame"
  /\ playerCount = 8
  /\ Len(players) = 8
  /\ Len(deck) = 41
  /\ phase = "reveal"

\* the cards of a sequence with their ids counted from base
rebased(cards, base) == [k \in 1..Len(cards) |-> [cards[k] EXCEPT !.id = @ - base]]

\* the state is the one startGame gives as the first call after construction, with
\* n players and the random source seed, but for the ids, which count from base
isFirstGameState(n, seed, base) ==
  LET d == buildDeck(0, seed)
  IN /\ Len(players) = n
     /\ \A p \in 1..n :
          /\ players[p].id = p - 1
          /\ rebased(players[p].cards, base) = dealtPlayers(d, n)[p].cards
     /\ rebased(deck, base) = SubSeq(d, 1, Len(d) - HandSize * n - 1)
     /\ rebased(discard, base) = <<[d[Len(d) - HandSize * n] EXCEPT !.faceUp = TRUE]>>
     /\ phase = "reveal"
     /\ currentPlayer = 0
     /\ revealTargets = [i \in 0..(n - 1) |-> 0]
     /\ drawnCard = Null

\* C14: resetGame, called in any state, gives phase start, no players, an empty
\* deck, an empty discard pile, no drawn card, currentPlayer 0 and empty
\* revealTargets; the state after a following startGame is the state a first game
\* with that player count and random source starts in, its cards carrying fresh
\* ids, none of them an id of an earlier game.
C14_ResetGame ==
  /\ [][lastCall'.op = "resetGame" =>
          /\ phase' = "start"
          /\ players' = <<>>
          /\ deck' = <<>>
          /\ discard' = <<>>
          /\ drawnCard' = Null
          /\ currentPlayer' = 0
          /\ revealTargets' = <<>>]_vars
  /\ []((lastCall.op = "startGame" /\ games > 1) =>
          /\ uidNext - DeckTotal >= DeckTotal * (games - 1)
          /\ \E seed \in Seeds : isFirstGameState(playerCount, seed, uidNext - DeckTotal))

\* a second game has just been started, after a reset of the first: all its
\* cards have ids the first game did not use
C14_Witness ==
  /\ lastCall.op = "startGame"
  /\ games = 2
  /\ phase = "reveal"
  /\ Len(players) = playerCount
  /\ \A k \in 1..Len(deck) : deck[k].id >= DeckTotal

RECURSIVE handsOf(_)
\* the cards of all hands, in one sequence
handsOf(ps) == IF ps = <<>> THEN <<>> ELSE ps[1].cards \o handsOf(Tail(ps))

\* every card held anywhere: hands, deck, discard pile, drawn card
allCards ==
  handsOf(players) \o deck \o discard \o (IF drawnCard # Null THEN <<drawnCard>> ELSE <<>>)

\* C15: unique ownership: in every state after startGame each card id of the deck
\* that was built (DeckTotal ids, taken by the claim to be 150) occurs exactly
\* once among the hand slots, the deck, the discard pile and the drawn card, and
\* every card has the value it was built with.
C15_UniqueOwnership ==
  phase # "start" =>
    LET base == uidNext - DeckTotal
        built == deckEntries(1, base)
        cs == allCards
    IN /\ \A id \in base..(uidNext - 1) :
            Cardinality({k \in 1..Len(cs) : cs[k].id = id}) = 1
       /\ \A k \in 1..Len(cs) :
            /\ cs[k].id \in base..(uidNext - 1)
            /\ cs[k].value = built[cs[k].id - base + 1].value

\* C16: sequential reveal: throughout phase reveal, with currentPlayer = k, every
\* player of index < k has revealTargets 2, every player of index > k has 0 and
\* player k has less than 2; revealTargets never exceeds 2; and phase becomes play
\* only in a step after which every player's revealTargets is 2.
C16_SequentialReveal ==
  /\ [](phase = "reveal" =>
          /\ currentPlayer \in 0..(Len(players) - 1)
          /\ \A p \in 1..Len(players) :
               LET progress == revealTargets[players[p].id]
               IN /\ p - 1 < currentPlayer => progress = 2
                  /\ p - 1 > currentPlayer => progress = 0
                  /\ p - 1 = currentPlayer => progress < 2)
  /\ [](\A i \in DOMAIN revealTargets : revealTargets[i] <= 2)
  /\ [][(phase # "play" /\ phase' = "play") =>
          /\ Len(players') > 0
          /\ \A p \in 1..Len(players') : revealTargets'[players'[p].id] = 2]_vars

\* of 8 players the first three have revealed twice, the fourth once and is the
\* one to reveal, the others not yet
C16_Witness ==
  /\ phase = "reveal"
  /\ lastCall.op = "handleInitFlip"
  /\ lastCall.accepted
  /\ Len(players) = 8
  /\ currentPlayer = 3
  /\ revealTargets[2] = 2
  /\ revealTargets[3] = 1
  /\ revealTargets[4] = 0

\* C17: deck exhaustion: drawFromDeck on an empty deck changes no state, and the
\* deck never grows in a step other than startGame, so that an empty deck stays
\* empty, and drawFromDeck without effect, until the game is reset and a new one
\* started.
C17_DeckExhaustion ==
  [][/\ (lastCall'.op = "drawFromDeck" /\ Len(deck) = 0) => UNCHANGED gameVars
     /\ Len(deck') > Len(deck) => lastCall'.op = "startGame"
     /\ (phase = "play" /\ Len(deck) = 0 /\ lastCall'.op # "resetGame")
          => (phase' = "play" /\ Len(deck') = 0)]_vars

\* in phase play, the deck is empty, no card is held, and a call of drawFromDeck
\* has been turned down
C17_Witness ==
  /\ phase = "play"
  /\ Len(deck) = 0
  /\ drawnCard = Null
  /\ lastCall.op = "drawFromDeck"
  /\ ~lastCall.accepted

\* C18: no deadlock in play: in every state of phase play without a held card the
\* discard pile is non-empty, so that takeFromDiscard is enabled and changes the
\* state; in every state with a held card the resolutions, placeDrawnAt and
\* discardAndFlip, are enabled and change the state.
C18_NoDeadlockInPlay ==
  /\ (phase = "play" /\ drawnCard = Null) =>
       /\ Len(discard) > 0
       /\ ENABLED (takeFromDiscard /\ gameVars' # gameVars)
  /\ drawnCard # Null =>
       /\ phase = "play"
       /\ ENABLED (placeDrawnAt(0, 1) /\ gameVars' # gameVars)
       /\ ENABLED (discardDrawnAndFlip(<<>>) /\ gameVars' # gameVars)

\* the only card of the discard pile was taken and the turn resolved: there is
\* again one card on the pile, none has left the deck, and no card is held
C18_Witness ==
  /\ phase = "play"
  /\ drawnCard = Null
  /\ lastCall.op \in Resolutions
  /\ lastCall.accepted
  /\ Len(discard) = 1
  /\ Len(deck) = DeckTotal - HandSize * Len(players) - 1

\* C19: face-state monotonicity: in every step but startGame and resetGame a hand
\* slot that is face-up is face-up afterwards, and the slot placeDrawnAt fills is
\* face-up; in every state all cards of the discard pile and the held card are
\* face-up and all cards of the deck are face-down.
C19_FaceStateMonotonic ==
  /\ [][lastCall'.op \notin {"startGame", "resetGame"} =>
          /\ players' # players =>
               /\ Len(players') = Len(players)
               /\ \A p \in 1..Len(players) :
                    /\ Len(players'[p].cards) = Len(players[p].cards)
                    /\ \A k \in 1..Len(players[p].cards) :
                         isFaceUp(players[p].cards[k]) => isFaceUp(players'[p].cards[k])
          /\ (lastCall'.op = "placeDrawnAt" /\ lastCall'.accepted) =>
               isFaceUp(players'[currentPlayer + 1].cards[lastCall'.args[1] + 1])]_vars
  /\ [](/\ \A k \in 1..Len(discard) : isFaceUp(discard[k])
        /\ drawnCard # Null => isFaceUp(drawnCard)
        /\ \A k \in 1..Len(deck) : ~isFaceUp(deck[k]))

\* a card drawn from the deck has been placed on the last slot: the slot is
\* face-up, the card it held lies face-up on the pile, and the first slot, revealed
\* before, is still face-up
C19_Witness ==
  /\ phase = "play"
  /\ lastCall = [op |-> "placeDrawnAt", args |-> <<HandSize - 1>>, accepted |-> TRUE]
  /\ Len(deck) = DeckTotal - HandSize * Len(players) - 2
  /\ Len(discard) >= 2
  /\ isFaceUp(discard[Len(discard)])
  /\ LET mover == ((currentPlayer + Len(players) - 1) % Len(players)) + 1
     IN /\ revealTargets[players[mover].id] = 2
        /\ isFaceUp(players[mover].cards[1])
        /\ isFaceUp(players[mover].cards[HandSize])
        /\ \A k \in 2..(HandSize - 1) : ~isFaceUp(players[mover].cards[k])

GameActions ==
  {"drawFromDeck", "takeFromDiscard", "placeDrawnAt", "discardDrawnAndFlip", "handleInitFlip"}

\* C20: phase order: the phase changes only from start to reveal, by startGame,
\* from reveal to play, by the second reveal of the last player, and to start, by
\* resetGame, which leads to start from every phase; in phase play no game action
\* (draw, take, place, discard-and-flip, reveal) changes the phase, whatever the
\* hands and the deck are.
C20_PhaseOrder ==
  [][/\ phase' # phase =>
          \/ phase = "start" /\ phase' = "reveal" /\ lastCall'.op = "startGame"
          \/ /\ phase = "reveal" /\ phase' = "play"
             /\ lastCall'.op = "handleInitFlip"
             /\ lastCall'.args[1] = Len(players) - 1
             /\ revealTargets[players[Len(players)].id] = 1
          \/ phase' = "start" /\ lastCall'.op = "resetGame"
     /\ lastCall'.op = "resetGame" => phase' = "start"
     /\ (phase = "play" /\ lastCall'.op \in GameActions) => phase' = "play"]_vars

\* the player who moved had all 12 cards face-up before the move (the discard
\* button found no card to flip), and the phase is still play
C20_Witness ==
  /\ phase = "play"
  /\ lastCall = [op |-> "discardDrawnAndFlip", args |-> <<>>, accepted |-> TRUE]
  /\ LET mover == ((currentPlayer + Len(players) - 1) % Len(players)) + 1
     IN \A k \in 1..HandSize : isFaceUp(players[mover].cards[k])
====
